---- MODULE Spec2Model ----
(***************************************************************************)
(* Model of the incremental update pipeline of climate_data_scraping:      *)
(*   find_dates.py            date window resolver                         *)
(*   extract_data.py          per-station fetch loop with retry            *)
(*   concatenate.py           concat_preserving_second (the merge)         *)
(*   delete_file.py           safe_delete                                  *)
(*   check_and_update_info.py check_up_to_date / update_history / script   *)
(*                                                                         *)
(* Dates are the integers YYYYMMDD that the file names carry.  A directory *)
(* is a function from file names <<code, start, end>> to CSV files; a CSV  *)
(* file is its header and its lines; a DataFrame is its column Index and   *)
(* its rows (index label and values) in order.                             *)
(***************************************************************************)
EXTENDS Integers, Sequences, FiniteSets, TLC

VARIABLES
    history,            \* base/history : file name -> CSV file
    update,             \* base/update  : file name -> CSV file
    today,              \* the UTC date datetime.now(UTC) falls on
    pc,                 \* position of the script
    error,              \* the exception that ended the script, or "none"
    up_to_date,         \* result of check_up_to_date
    orig_start, orig_end, new_start, new_end,   \* locals of update_history
    idx,                \* position of the station loop in `eligible`
    consecutive_errors, \* extract_data.py local of the retry loop
    attempts,           \* calls of extract_data_coord made for the station
    fetch_failures,     \* consecutive calls, up to now, that came back
                        \* empty or raised
    skipped,            \* stations whose "skipping" message was printed
    written,            \* stations whose "completed" message was printed
    todo,               \* update files the merge loop has not visited yet
    hist_file,          \* update_history local: matched history file name
    history_df,         \* update_history local
    update_df,          \* update_history local
    old_history,        \* the history directory as the script found it
    df1, df2, sort_index, combined,  \* a direct call of the merge
    treated             \* base/treated_data : parameter -> exported table

cycleVars == <<history, update, today, pc, error, up_to_date, orig_start,
               orig_end, new_start, new_end, idx, consecutive_errors,
               attempts, fetch_failures, skipped, written, todo, hist_file,
               history_df, update_df, old_history>>
mergeVars == <<df1, df2, sort_index, combined>>
callVars == <<mergeVars, treated>>
vars == <<cycleVars, callVars>>

None == "none"
NoName == <<>>
NoTables == <<>>

(***************************************************************************)
(* Calendar: datetime.strptime(s, "%Y%m%d"), date - timedelta(days = n)    *)
(* and strftime("%Y%m%d"), computed through the proleptic Gregorian        *)
(* ordinal as the datetime module does.                                    *)
(***************************************************************************)
Year(d)  == d \div 10000
Month(d) == (d \div 100) % 100
Day(d)   == d % 100

IsLeap(y) == y % 4 = 0 /\ (y % 100 # 0 \/ y % 400 = 0)

DaysInMonth(y, m) ==
    IF m = 2 THEN (IF IsLeap(y) THEN 29 ELSE 28)
    ELSE IF m \in {4, 6, 9, 11} THEN 30 ELSE 31

DaysBeforeMonthTable == <<0, 31, 59, 90, 120, 151, 181, 212, 243, 273, 304, 334>>

DaysBeforeMonth(y, m) ==
    DaysBeforeMonthTable[m] + (IF m > 2 /\ IsLeap(y) THEN 1 ELSE 0)

DaysBeforeYear(y) ==
    LET y1 == y - 1 IN y1 * 365 + (y1 \div 4) - (y1 \div 100) + (y1 \div 400)

\* strptime(...).toordinal()
ToOrdinal(d) == DaysBeforeYear(Year(d)) + DaysBeforeMonth(Year(d), Month(d)) + Day(d)

\* date.fromordinal(n).strftime("%Y%m%d")
FromOrdinal(n) ==
    LET n0   == n - 1
        n400 == n0 \div 146097
        r400 == n0 % 146097
        n100 == r400 \div 36524
        r100 == r400 % 36524
        n4   == r100 \div 1461
        r4   == r100 % 1461
        n1   == r4 \div 365
        r1   == r4 % 365
        year == n400 * 400 + 1 + n100 * 100 + n4 * 4 + n1
    IN  IF n1 = 4 \/ n100 = 4
        THEN (year - 1) * 10000 + 1231
        ELSE LET leap  == n1 = 3 /\ (n4 # 24 \/ n100 = 3)
                 m0    == (r1 + 50) \div 32
                 prec0 == DaysBeforeMonthTable[m0] + (IF m0 > 2 /\ leap THEN 1 ELSE 0)
                 month == IF prec0 > r1 THEN m0 - 1 ELSE m0
                 prec  == IF prec0 > r1
                          THEN prec0 - ((IF month = 2 /\ leap THEN 29
                                         ELSE DaysInMonth(1, month)))
                          ELSE prec0
             IN  year * 10000 + month * 100 + (r1 - prec + 1)

Buffer == 2

\* the subtraction one day short
SubtractDaysShifted(d, n) == FromOrdinal(ToOrdinal(d) - n + 1)
\* (strptime(d) - timedelta(days = n)).strftime("%Y%m%d")
SubtractDays(d, n) == FromOrdinal(ToOrdinal(d) - n)

\* the dates a, a + 1 day, ..., b in order (empty when b is before a)
DateRange(a, b) ==
    [i \in 1..(ToOrdinal(b) - ToOrdinal(a) + 1) |-> FromOrdinal(ToOrdinal(a) + i - 1)]

(***************************************************************************)
(* DataFrames and CSV files.                                               *)
(*   DataFrame: [columns : Seq(name), rows : Seq([date, vals : Seq(val)])] *)
(*   CSV file : [header : Seq(name), lines : Seq(Seq(val))]                *)
(***************************************************************************)
IndexName == "datetime"

RECURSIVE SelectRows(_, _)
\* df.loc[mask]: the rows whose index label is in `keep`, in their order
SelectRows(rows, keep) ==
    IF rows = <<>> THEN <<>>
    ELSE IF Head(rows).date \in keep
         THEN <<Head(rows)>> \o SelectRows(Tail(rows), keep)
         ELSE SelectRows(Tail(rows), keep)

IndexOf(df) == {df.rows[i].date : i \in DOMAIN df.rows}

RECURSIVE InsertSorted(_, _)
InsertSorted(r, sorted) ==
    IF sorted = <<>> THEN <<r>>
    ELSE IF r.date <= Head(sorted).date
         THEN <<r>> \o sorted
         ELSE <<Head(sorted)>> \o InsertSorted(r, Tail(sorted))

RECURSIVE SortIndex(_)
\* DataFrame.sort_index() on the rows: ascending index (rows of equal label
\* are kept in their order)
SortIndex(rows) ==
    IF rows = <<>> THEN <<>>
    ELSE InsertSorted(Head(rows), SortIndex(Tail(rows)))

\* a raised exception, where a DataFrame was expected
ValueError == [raised |-> "ValueError: DataFrames must have identical column sets."]

\* the merge with the first table winning on a shared index label
concat_keeping_first(a, b, s) ==
    IF a.columns # b.columns
    THEN ValueError
    ELSE LET rows == a.rows \o SelectRows(b.rows, IndexOf(b) \ IndexOf(a))
         IN  [columns |-> a.columns,
              rows    |-> IF s THEN SortIndex(rows) ELSE rows]

\* the merge without the filter on the first table
concat_plain(a, b, s) ==
    IF a.columns # b.columns
    THEN ValueError
    ELSE [columns |-> a.columns,
          rows    |-> IF s THEN SortIndex(a.rows \o b.rows) ELSE a.rows \o b.rows]

\* concat_preserving_second(df1, df2, sort_index = s)
concat_preserving_second(a, b, s) ==
    IF a.columns # b.columns
    THEN ValueError
    ELSE LET df1_unique == SelectRows(a.rows, IndexOf(a) \ IndexOf(b))
             rows       == df1_unique \o b.rows
         IN  [columns |-> a.columns,
              rows    |-> IF s THEN SortIndex(rows) ELSE rows]

\* DataFrame.to_csv(path): the index is written as the first column
to_csv(df) ==
    [header |-> <<IndexName>> \o df.columns,
     lines  |-> [i \in DOMAIN df.rows |-> <<df.rows[i].date>> \o df.rows[i].vals]]

\* DataFrame.to_csv(path, index=False): the index is not written
to_csv_no_index(df) ==
    [header |-> df.columns,
     lines  |-> [i \in DOMAIN df.rows |-> df.rows[i].vals]]

\* what a write that raised leaves at the path: nothing, or the file that
\* open() created and truncated
TruncatedFile == [header |-> <<>>, lines |-> <<>>]

RECURSIVE Without(_, _)
Without(seq, k) ==
    IF seq = <<>> THEN <<>>
    ELSE IF k = 1 THEN Tail(seq)
         ELSE <<Head(seq)>> \o Without(Tail(seq), k - 1)

Position(seq, x) == CHOOSE i \in DOMAIN seq : seq[i] = x /\ \A j \in 1..(i - 1) : seq[j] # x

EmptyDataError == [raised |-> "EmptyDataError: No columns to parse from file"]
MissingColumn == [raised |-> "ValueError: Missing column provided to 'parse_dates': 'datetime'"]
NoFrame == [raised |-> "none"]

\* pd.read_csv(path, parse_dates=["datetime"]).set_index("datetime"):
\* raises on an empty file and on a file with no "datetime" column; the
\* "datetime" column becomes the index, the other columns keep their order
read_csv(file) ==
    IF file.header = <<>>
    THEN EmptyDataError
    ELSE IF \A i \in DOMAIN file.header : file.header[i] # IndexName
    THEN MissingColumn
    ELSE LET k == Position(file.header, IndexName)
         IN  [columns |-> Without(file.header, k),
              rows    |-> [i \in DOMAIN file.lines |->
                              [date |-> file.lines[i][k],
                               vals |-> Without(file.lines[i], k)]]]

IsFrame(x) == "columns" \in DOMAIN x

(***************************************************************************)
(* Directories.                                                            *)
(***************************************************************************)
FileName(code, start, end) == <<code, start, end>>
CodeOf(name)  == name[1]     \* name.split("_")[0]
StartOf(name) == name[2]     \* name.split("_")[1]
EndOf(name)   == name[3]     \* name.split("_")[2][:-4]

EmptyDir == [n \in {} |-> TruncatedFile]

WriteFile(dir, name, file) ==
    [n \in DOMAIN dir \cup {name} |-> IF n = name THEN file ELSE dir[n]]

\* safe_delete(path): unlink the file when it is there
safe_delete(dir, name) ==
    IF name \in DOMAIN dir
    THEN [n \in DOMAIN dir \ {name} |-> dir[n]]
    ELSE dir

\* history_dir.glob(f"{code}_*_*.csv")
Matching(dir, code) == {n \in DOMAIN dir : CodeOf(n) = code}

(***************************************************************************)
(* The date window (find_dates.py).                                        *)
(***************************************************************************)
\* find_start_and_end_date, for the file get_random_filename picked and the
\* date datetime.now(UTC) falls on
find_start_and_end_date(random_file, now) ==
    [orig_start |-> StartOf(random_file),
     orig_end   |-> EndOf(random_file),
     new_start  |-> SubtractDays(EndOf(random_file), Buffer),
     new_end    |-> SubtractDays(now, Buffer)]

(***************************************************************************)
(* Inputs: the stations, the store and the update folder the script finds. *)
(***************************************************************************)
\* the catalogue rows that pass the state and coastal filters, in order
\* (not empty, so the `total_valid == 0` return is not taken)
Eligible == <<"A", "B">>

\* the parameter extract_data_multiple_coordinates requests (the default of
\* extract_data_coord), and the parameters of a two-parameter bulk fetch
FetchColumns == <<"IMERG_PRECTOT">>
ColumnSets == {<<"IMERG_PRECTOT">>, <<"IMERG_PRECTOT", "T2M">>}

\* cell values, tagged by where the row came from
Cell == [old |-> 1, new |-> 2, stale |-> 3]

Frame(dates, cols, v) ==
    [columns |-> cols,
     rows    |-> [i \in DOMAIN dates |->
                    [date |-> dates[i], vals |-> [j \in DOMAIN cols |-> v]]]]

\* the table the remote API returns for a window
FetchedFrame(start, end) == Frame(DateRange(start, end), FetchColumns, Cell.new)

Starts == {20240101, 20240105}
Ends   == {20240110, 20240113}
Todays == {20240115, 20240116}

\* a store file of a station: the table of its range, written with or
\* without its index
StoreFile(start, end, cols, indexed) ==
    IF indexed
    THEN to_csv(Frame(DateRange(start, end), cols, Cell.old))
    ELSE to_csv_no_index(Frame(DateRange(start, end), cols, Cell.old))

\* files an earlier run may have left in update/: a table of an older
\* window, and the table of the window [20240108, 20240113], written with
\* their index
LeftInUpdate ==
    { [name |-> FileName("A", 20240106, 20240111),
       file |-> to_csv(Frame(DateRange(20240106, 20240111), FetchColumns, Cell.stale))],
      [name |-> FileName("A", 20240108, 20240113),
       file |-> to_csv(FetchedFrame(20240108, 20240113))],
      [name |-> FileName("C", 20240106, 20240111),
       file |-> to_csv(Frame(DateRange(20240106, 20240111), FetchColumns, Cell.stale))] }

DirOf(entries) ==
    [n \in {e.name : e \in entries} |-> (CHOOSE e \in entries : e.name = n).file]

Stores ==
    {EmptyDir} \cup
    { DirOf({[name |-> FileName("A", sa, ea), file |-> StoreFile(sa, ea, cols, indexed)],
             [name |-> FileName("B", sb, eb), file |-> StoreFile(sb, eb, cols, indexed)]}) :
        <<sa, ea, sb, eb, cols, indexed>> \in
            Starts \X Ends \X Starts \X Ends \X ColumnSets \X BOOLEAN }

MaxErrors == 4
MaxAttempts == 5

CycleInit ==
    /\ history \in Stores
    /\ update \in {DirOf(left) : left \in SUBSET LeftInUpdate}
    /\ today \in Todays
    /\ old_history = history
    /\ pc = "check"
    /\ error = None
    /\ up_to_date = FALSE
    /\ orig_start = 0 /\ orig_end = 0 /\ new_start = 0 /\ new_end = 0
    /\ idx = 0
    /\ consecutive_errors = 0 /\ attempts = 0 /\ fetch_failures = 0
    /\ skipped = {} /\ written = {}
    /\ todo = {}
    /\ hist_file = NoName
    /\ history_df = NoFrame /\ update_df = NoFrame

Init ==
    /\ CycleInit
    /\ df1 = NoFrame /\ df2 = NoFrame /\ sort_index = FALSE /\ combined = NoFrame
    /\ treated = NoTables

Raise(e) == pc' = "crashed" /\ error' = e

(***************************************************************************)
(* check_up_to_date and the script (check_and_update_info.py).             *)
(***************************************************************************)
windowVars == <<orig_start, orig_end, new_start, new_end>>
loopVars   == <<idx, consecutive_errors, attempts, fetch_failures, skipped, written>>
mergeLocals == <<todo, hist_file, history_df, update_df>>

\* the script: `if not check_up_to_date(base): update_history(base)`
CheckUpToDate ==
    /\ pc = "check"
    /\ \/ /\ DOMAIN history = {}
          /\ Raise("FileNotFoundError")
          /\ UNCHANGED <<up_to_date, windowVars>>
       \/ \E random_file \in DOMAIN history :
            LET d == find_start_and_end_date(random_file, today) IN
            /\ orig_start' = d.orig_start /\ orig_end' = d.orig_end
            /\ new_start' = d.new_start /\ new_end' = d.new_end
            /\ up_to_date' = (d.new_end = d.orig_end)
            /\ pc' = IF d.new_end = d.orig_end THEN "done" ELSE "update_history"
            /\ error' = error
    /\ UNCHANGED <<history, update, today, old_history, loopVars, mergeLocals, callVars>>

\* update_history, step 1: the date window, from a file sampled anew (the
\* date is taken to be the one check_up_to_date saw); step 2 begins
\* (extract_data_multiple_coordinates up to its main loop)
UpdateWindow ==
    /\ pc = "update_history"
    /\ \E random_file \in DOMAIN history :
         LET d == find_start_and_end_date(random_file, today) IN
         /\ orig_start' = d.orig_start /\ orig_end' = d.orig_end
         /\ new_start' = d.new_start /\ new_end' = d.new_end
    /\ idx' = 1
    /\ pc' = "for"
    /\ UNCHANGED <<history, update, today, old_history, error, up_to_date,
                   consecutive_errors, attempts, fetch_failures, skipped, written,
                   mergeLocals, callVars>>

(***************************************************************************)
(* extract_data_multiple_coordinates(start = new_start, end = new_end,     *)
(* history = False): the main loop over the eligible stations.             *)
(***************************************************************************)
Station == Eligible[idx]
save_path == FileName(Station, new_start, new_end)

cycleRest == <<history, today, old_history, error, up_to_date, windowVars,
               mergeLocals, callVars>>

\* `if save_path.exists(): continue`
StationExists ==
    /\ pc = "for" /\ idx \in DOMAIN Eligible
    /\ save_path \in DOMAIN update
    /\ idx' = idx + 1
    /\ UNCHANGED <<update, pc, consecutive_errors, attempts, fetch_failures,
                   skipped, written, cycleRest>>

\* `consecutive_errors = 0; while True:`
StationBegin ==
    /\ pc = "for" /\ idx \in DOMAIN Eligible
    /\ save_path \notin DOMAIN update
    /\ consecutive_errors' = 0 /\ attempts' = 0 /\ fetch_failures' = 0
    /\ pc' = "while"
    /\ UNCHANGED <<update, idx, skipped, written, cycleRest>>

\* the failure count with the skip one failure later
CountFailureLate(errors) ==
    /\ consecutive_errors' = errors + 1
    /\ IF errors + 1 > MaxErrors
       THEN /\ skipped' = skipped \cup {Station}
            /\ idx' = idx + 1
            /\ pc' = "for"
       ELSE UNCHANGED <<skipped, idx, pc>>

\* one more failure counted; at MaxErrors the station is skipped (`break`),
\* below it the loop sleeps and tries again
CountFailure(errors) ==
    /\ consecutive_errors' = errors + 1
    /\ IF errors + 1 >= MaxErrors
       THEN /\ skipped' = skipped \cup {Station}
            /\ idx' = idx + 1
            /\ pc' = "for"
       ELSE UNCHANGED <<skipped, idx, pc>>

\* extract_data_coord returned an empty frame
FetchEmpty ==
    /\ pc = "while"
    /\ attempts' = attempts + 1
    /\ fetch_failures' = fetch_failures + 1
    /\ CountFailure(consecutive_errors)
    /\ UNCHANGED <<update, written, cycleRest>>

\* extract_data_coord raised
FetchRaises ==
    /\ pc = "while"
    /\ attempts' = attempts + 1
    /\ fetch_failures' = fetch_failures + 1
    /\ CountFailure(consecutive_errors)
    /\ UNCHANGED <<update, written, cycleRest>>

\* a non-empty frame, written with index=False
FetchWritten ==
    /\ pc = "while"
    /\ attempts' = attempts + 1
    /\ fetch_failures' = 0
    /\ consecutive_errors' = 0
    /\ update' = WriteFile(update, save_path,
                           to_csv_no_index(FetchedFrame(new_start, new_end)))
    /\ written' = written \cup {Station}
    /\ idx' = idx + 1
    /\ pc' = "for"
    /\ UNCHANGED <<skipped, cycleRest>>

\* a non-empty frame (consecutive_errors = 0), then df.to_csv raised: the
\* handler counts one failure from zero
FetchWriteFails ==
    /\ pc = "while"
    /\ attempts < MaxAttempts
    /\ attempts' = attempts + 1
    /\ fetch_failures' = 0
    /\ CountFailure(0)
    /\ update' \in {update, WriteFile(update, save_path, TruncatedFile)}
    /\ UNCHANGED <<written, cycleRest>>

\* the loop is over: the summary is printed and update_history goes on to
\* `for upd_file in update_dir.glob("*.csv")`
ExtractDone ==
    /\ pc = "for" /\ idx \notin DOMAIN Eligible
    /\ todo' = DOMAIN update
    /\ pc' = "merge"
    /\ UNCHANGED <<history, update, today, old_history, error, up_to_date,
                   windowVars, loopVars, hist_file, history_df, update_df, callVars>>

(***************************************************************************)
(* update_history, step 3: merge each update file into the history.        *)
(***************************************************************************)
mergeRest == <<update, today, old_history, up_to_date, windowVars, loopVars, callVars>>

\* one iteration up to `safe_delete`: read the update file, find the first
\* history file of its code, read it
MergeRead ==
    /\ pc = "merge"
    /\ \E upd_file \in todo :
         LET u == read_csv(update[upd_file]) IN
         /\ todo' = todo \ {upd_file}
         /\ update_df' = u
         /\ IF ~IsFrame(u)
            THEN /\ Raise(u.raised)
                 /\ UNCHANGED <<hist_file, history_df>>
            ELSE IF Matching(history, CodeOf(upd_file)) = {}
            THEN UNCHANGED <<pc, error, hist_file, history_df>>
            ELSE \E f \in Matching(history, CodeOf(upd_file)) :
                    LET h == read_csv(history[f]) IN
                    /\ hist_file' = f
                    /\ history_df' = h
                    /\ IF IsFrame(h)
                       THEN pc' = "delete" /\ error' = error
                       ELSE Raise(h.raised)
    /\ UNCHANGED <<history, mergeRest>>

\* `safe_delete(hist_file)`
DeleteOld ==
    /\ pc = "delete"
    /\ history' = safe_delete(history, hist_file)
    /\ pc' = "concat"
    /\ UNCHANGED <<error, mergeLocals, mergeRest>>

out_path == FileName(CodeOf(hist_file), orig_start, new_end)

\* `concat_preserving_second(history_df, update_df).to_csv(out_path)`
ConcatAndSave ==
    /\ pc = "concat"
    /\ LET m == concat_preserving_second(history_df, update_df, FALSE) IN
       IF ~IsFrame(m)
       THEN Raise(m.raised) /\ history' = history
       ELSE \/ /\ history' = WriteFile(history, out_path, to_csv(m))
               /\ pc' = "merge" /\ error' = error
            \/ /\ history' \in {history, WriteFile(history, out_path, TruncatedFile)}
               /\ Raise("OSError")
    /\ UNCHANGED <<mergeLocals, mergeRest>>

\* the glob is exhausted: update_history returns
MergeDone ==
    /\ pc = "merge" /\ todo = {}
    /\ pc' = "done"
    /\ UNCHANGED <<history, error, mergeLocals, mergeRest>>

Next ==
    \/ CheckUpToDate \/ UpdateWindow
    \/ StationExists \/ StationBegin
    \/ FetchEmpty \/ FetchRaises \/ FetchWritten \/ FetchWriteFails
    \/ ExtractDone
    \/ MergeRead \/ DeleteOld \/ ConcatAndSave \/ MergeDone

Spec == Init /\ [][Next]_vars

(***************************************************************************)
(* The date window on its own: a one-file store whose range end, and the   *)
(* current date, range over a window of days that spans a year end and a   *)
(* leap day.                                                               *)
(***************************************************************************)
WindowDays == 70
Window == {FromOrdinal(ToOrdinal(20231225) + i) : i \in 0..WindowDays}

DatesInit ==
    /\ \E e \in Window :
         history = DirOf({[name |-> FileName("A", SubtractDays(e, 9), e),
                           file |-> StoreFile(SubtractDays(e, 9), e, FetchColumns, TRUE)]})
    /\ update = EmptyDir
    /\ today \in {t \in Window : \A n \in DOMAIN history :
                                    ToOrdinal(EndOf(n)) + Buffer <= ToOrdinal(t)}
    /\ old_history = history
    /\ pc = "check"
    /\ error = None
    /\ up_to_date = FALSE
    /\ orig_start = 0 /\ orig_end = 0 /\ new_start = 0 /\ new_end = 0
    /\ idx = 0
    /\ consecutive_errors = 0 /\ attempts = 0 /\ fetch_failures = 0
    /\ skipped = {} /\ written = {}
    /\ todo = {}
    /\ hist_file = NoName
    /\ history_df = NoFrame /\ update_df = NoFrame
    /\ df1 = NoFrame /\ df2 = NoFrame /\ sort_index = FALSE /\ combined = NoFrame
    /\ treated = NoTables

DatesNext == CheckUpToDate \/ UpdateWindow

DatesSpec == DatesInit /\ [][DatesNext]_vars

(***************************************************************************)
(* The merge on its own: concat_preserving_second called on two tables,    *)
(* and called again on its result and the same second table.               *)
(***************************************************************************)
MaxRows == 2
MergeDates == {20240110, 20240111}
MergeColumns == {<<"IMERG_PRECTOT">>, <<"IMERG_PRECTOT", "T2M">>, <<"T2M", "IMERG_PRECTOT">>}
MergeCells == {Cell.old, Cell.new}

SeqsUpTo(S, n) == UNION {[1..k -> S] : k \in 0..n}

Tables ==
    { [columns |-> cols,
       rows    |-> [i \in DOMAIN r |->
                      [date |-> r[i][1], vals |-> [j \in DOMAIN cols |-> r[i][2]]]]] :
        cols \in MergeColumns, r \in SeqsUpTo(MergeDates \X MergeCells, MaxRows) }

MergeInit ==
    /\ df1 \in Tables /\ df2 \in Tables /\ sort_index \in BOOLEAN
    /\ combined = NoFrame
    /\ treated = NoTables
    /\ pc = "call"
    /\ history = EmptyDir /\ update = EmptyDir /\ old_history = EmptyDir
    /\ today = 0
    /\ error = None
    /\ up_to_date = FALSE
    /\ orig_start = 0 /\ orig_end = 0 /\ new_start = 0 /\ new_end = 0
    /\ idx = 0
    /\ consecutive_errors = 0 /\ attempts = 0 /\ fetch_failures = 0
    /\ skipped = {} /\ written = {}
    /\ todo = {}
    /\ hist_file = NoName
    /\ history_df = NoFrame /\ update_df = NoFrame

\* merged = concat_preserving_second(df1, df2, sort_index=sort_index)
CallMerge ==
    /\ pc = "call"
    /\ combined' = concat_preserving_second(df1, df2, sort_index)
    /\ pc' = "called"
    /\ UNCHANGED <<df1, df2, sort_index, treated>>
    /\ UNCHANGED <<history, update, today, old_history, error, up_to_date,
                   windowVars, loopVars, mergeLocals>>

\* merged = concat_preserving_second(merged, df2, sort_index=sort_index)
CallMergeAgain ==
    /\ pc = "called" /\ IsFrame(combined)
    /\ df1' = combined
    /\ combined' = concat_preserving_second(combined, df2, sort_index)
    /\ pc' = "recalled"
    /\ UNCHANGED <<df2, sort_index, treated>>
    /\ UNCHANGED <<history, update, today, old_history, error, up_to_date,
                   windowVars, loopVars, mergeLocals>>

MergeNext == CallMerge \/ CallMergeAgain

MergeSpec == MergeInit /\ [][MergeNext]_vars

(***************************************************************************)
(* build_state_mean_tables (agregate_data.py): daily state means of every  *)
(* parameter over the station files of the history folder.                 *)
(***************************************************************************)
\* the allow-list of agregate_data.py
states == <<"DF", "GO", "MG", "MS", "MT", "PR", "RJ", "RS", "SC", "SP">>

\* catalogue.csv: CD_ESTACAO -> SG_ESTADO
code_to_state == [A |-> "MG", B |-> "MG", C |-> "SP", D |-> "BA"]

StateOf(code) == IF code \in DOMAIN code_to_state THEN code_to_state[code] ELSE None

\* an empty CSV cell (what to_csv writes for the value the fetch put in
\* place of the API's sentinel); pandas reads it as NaN
MissingValue == -999

NaN == [nan |-> TRUE]
NoneCell == [none |-> TRUE]
IsNumber(c) == "float" \in DOMAIN c

\* float(value)
Float(v) == IF v = MissingValue THEN NaN ELSE [float |-> v]

UsecolsError == [raised |-> "ValueError: Usecols do not match columns"]

Has(seq, x) == \E i \in DOMAIN seq : seq[i] = x

\* pd.read_csv(csv_path, usecols=["datetime", param],
\*             parse_dates=["datetime"]).set_index("datetime")[param].items()
ReadColumn(file, param) ==
    IF file.header = <<>> THEN EmptyDataError
    ELSE IF ~Has(file.header, IndexName) \/ ~Has(file.header, param) THEN UsecolsError
    ELSE [items |-> [i \in DOMAIN file.lines |->
                        [ts    |-> file.lines[i][Position(file.header, IndexName)],
                         value |-> file.lines[i][Position(file.header, param)]]]]

\* the files whose station's state is in the allow-list
EligibleFiles(dir) == {n \in DOMAIN dir : Has(states, StateOf(CodeOf(n)))}

\* `records`: one tuple (ts, *row.values()) per value of every eligible
\* file, keyed by where it was read
Records(dir, param) ==
    UNION { { [id    |-> <<n, i>>,
               date  |-> ReadColumn(dir[n], param).items[i].ts,
               cells |-> [k \in DOMAIN states |->
                            IF states[k] = StateOf(CodeOf(n))
                            THEN Float(ReadColumn(dir[n], param).items[i].value)
                            ELSE NoneCell]] :
              i \in 1..Len(dir[n].lines) } :
            n \in EligibleFiles(dir) }

RECURSIVE SumOf(_, _)
\* the sum of the numbers of column k over a set of records
SumOf(recs, k) ==
    IF recs = {} THEN 0
    ELSE LET r == CHOOSE x \in recs : TRUE
         IN  r.cells[k].float + SumOf(recs \ {r}, k)

RECURSIVE Gcd(_, _)
Gcd(a, b) == IF b = 0 THEN a ELSE Gcd(b, a % b)

\* the quotient total / count as a fraction in lowest terms
Quotient(total, count) ==
    LET g == Gcd(IF total < 0 THEN -total ELSE total, count)
    IN  [num |-> total \div g, den |-> count \div g]

\* a group's mean with None and NaN counted as zero
GroupMeanZeroFilled(recs, k) ==
    LET numbers == {r \in recs : IsNumber(r.cells[k])}
    IN  [mean |-> Quotient(SumOf(numbers, k), Cardinality(recs))]

\* one cell of groupby("date").mean(): the mean of the numbers of the
\* group, NaN and None left out; NaN when there is none
GroupMean(recs, k) ==
    LET numbers == {r \in recs : IsNumber(r.cells[k])}
    IN  IF numbers = {} THEN NaN
        ELSE [mean |-> Quotient(SumOf(numbers, k), Cardinality(numbers))]

RECURSIVE Ascending(_)
Ascending(S) ==
    IF S = {} THEN <<>>
    ELSE LET m == CHOOSE x \in S : \A y \in S : x <= y
         IN  <<m>> \o Ascending(S \ {m})

RECURSIVE Keep(_, _)
\* the elements of a sequence that are in a set, in their order
Keep(seq, S) ==
    IF seq = <<>> THEN <<>>
    ELSE IF Head(seq) \in S THEN <<Head(seq)>> \o Keep(Tail(seq), S)
         ELSE Keep(Tail(seq), S)

\* DataFrame.from_dict(records, orient="index", columns=["date", *states])
\* then set_index("date").groupby("date").mean(numeric_only=True): a column
\* that holds only None is of dtype object and is left out; the groups are
\* the distinct dates in ascending order
StateMeans(recs) ==
    LET numeric == {k \in DOMAIN states : \E r \in recs : r.cells[k] # NoneCell}
        cols    == Keep([k \in DOMAIN states |-> k], numeric)
        dates   == Ascending({r.date : r \in recs})
    IN  [columns |-> [j \in DOMAIN cols |-> states[cols[j]]],
         rows    |-> [i \in DOMAIN dates |->
                        [date  |-> dates[i],
                         cells |-> [j \in DOMAIN cols |->
                                      GroupMean({r \in recs : r.date = dates[i]}, cols[j])]]]]

\* reading the files for a parameter raises when an eligible file lacks the
\* "datetime" column or the parameter
ReadRaises(dir, param) ==
    \E n \in EligibleFiles(dir) : "raised" \in DOMAIN ReadColumn(dir[n], param)

FirstRaising(dir, params) ==
    IF \E i \in DOMAIN params : ReadRaises(dir, params[i])
    THEN CHOOSE i \in DOMAIN params :
            ReadRaises(dir, params[i]) /\ \A j \in 1..(i - 1) : ~ReadRaises(dir, params[j])
    ELSE Len(params) + 1

\* build_state_mean_tables(base_path): the parameters are the columns after
\* the first of one sampled file; for each, in order, the records are read
\* and, unless there is none, the table is exported
build_state_mean_tables ==
    /\ pc = "aggregate"
    /\ IF DOMAIN history = {}
       THEN Raise("FileNotFoundError") /\ treated' = treated
       ELSE \E sample \in DOMAIN history :
              IF history[sample].header = <<>>
              THEN Raise(EmptyDataError.raised) /\ treated' = treated
              ELSE LET parameters == Tail(history[sample].header)
                       stop       == FirstRaising(history, parameters)
                       exported   == {parameters[i] : i \in 1..(stop - 1)}
                   IN  /\ treated' = [p \in {q \in exported : Records(history, q) # {}} |->
                                         StateMeans(Records(history, p))]
                       /\ IF stop \in DOMAIN parameters
                          THEN Raise(UsecolsError.raised)
                          ELSE pc' = "built" /\ error' = error
    /\ UNCHANGED <<history, update, today, old_history, up_to_date, windowVars,
                   loopVars, mergeLocals, mergeVars>>

(***************************************************************************)
(* The aggregation on its own: stores of station files over two dates.     *)
(***************************************************************************)
AggDates == <<20240110, 20240111>>
AggValues == {10, 20, 25, MissingValue}
OtherColumn(v) == IF v = MissingValue THEN MissingValue ELSE 100 - v

\* a station table: for each date, no row (<<>>) or a row with a value
StationTables == [DOMAIN AggDates -> {<<>>} \cup {<<v>> : v \in AggValues}]

AggFile(t, cols, indexed) ==
    LET present == Keep([i \in DOMAIN AggDates |-> i], {i \in DOMAIN AggDates : t[i] # <<>>})
        frame   == [columns |-> cols,
                    rows    |-> [i \in DOMAIN present |->
                                   [date |-> AggDates[present[i]],
                                    vals |-> [j \in DOMAIN cols |->
                                                IF j = 1 THEN t[present[i]][1]
                                                ELSE OtherColumn(t[present[i]][1])]]]]
    IN  IF indexed THEN to_csv(frame) ELSE to_csv_no_index(frame)

AggStores ==
    { DirOf({[name |-> FileName("A", 20240110, 20240111), file |-> AggFile(ta, cols, indexed)],
             [name |-> FileName("B", 20240110, 20240111), file |-> AggFile(tb, cols, indexed)]}
            \cup {[name |-> FileName(c, 20240110, 20240111),
                   file |-> AggFile([i \in DOMAIN AggDates |-> <<20>>], cols, indexed)] : c \in others}) :
        ta \in StationTables, tb \in StationTables, cols \in ColumnSets,
        indexed \in BOOLEAN, others \in SUBSET {"C", "D", "Z"} }
    \cup {EmptyDir,
          DirOf({[name |-> FileName("D", 20240110, 20240111),
                  file |-> AggFile([i \in DOMAIN AggDates |-> <<20>>], FetchColumns, TRUE)]})}

AggInit ==
    /\ history \in AggStores
    /\ pc = "aggregate"
    /\ treated = NoTables
    /\ update = EmptyDir /\ old_history = history
    /\ today = 0
    /\ error = None
    /\ up_to_date = FALSE
    /\ orig_start = 0 /\ orig_end = 0 /\ new_start = 0 /\ new_end = 0
    /\ idx = 0
    /\ consecutive_errors = 0 /\ attempts = 0 /\ fetch_failures = 0
    /\ skipped = {} /\ written = {}
    /\ todo = {}
    /\ hist_file = NoName
    /\ history_df = NoFrame /\ update_df = NoFrame
    /\ df1 = NoFrame /\ df2 = NoFrame /\ sort_index = FALSE /\ combined = NoFrame

AggNext == build_state_mean_tables

AggSpec == AggInit /\ [][AggNext]_vars


(***************************************************************************)
(* Properties.                                                             *)
(***************************************************************************)
Codes(dir) == {CodeOf(n) : n \in DOMAIN dir}

\* the dates a stored file holds (none when pandas cannot read its index)
DatesIn(file) == IF IsFrame(read_csv(file)) THEN IndexOf(read_csv(file)) ELSE {}

MinOf(S) == CHOOSE x \in S : \A y \in S : x <= y
MaxOf(S) == CHOOSE x \in S : \A y \in S : x >= y

\* C1: during update_history the replacement history file is written before
\* the old one is deleted: at every point of the update every station that
\* had a history file still has at least one history file on disk.
C1_OldKeptUntilNewWritten ==
    \A s \in Codes(old_history) : Matching(history, s) # {}

\* C2: no data loss across an update cycle: when the script has ended
\* (returned or raised), every date a station's history file held before
\* the cycle is still held by a history file of that station.
C2_NoDateLost ==
    pc \in {"done", "crashed"} =>
        \A n \in DOMAIN old_history : \A d \in DatesIn(old_history[n]) :
            \E m \in Matching(history, CodeOf(n)) : d \in DatesIn(history[m])

\* C3: file name and content agree: when the script has returned, every
\* history file <code>_<start>_<end> that holds dated rows has <end> equal to its latest date and <start>
\* equal to its earliest date or to the start the station's file had
\* before the cycle.
C3_NameMatchesContent ==
    pc = "done" => \A n \in DOMAIN history :
        DatesIn(history[n]) # {} =>
            /\ EndOf(n) = MaxOf(DatesIn(history[n]))
            /\ \/ StartOf(n) = MinOf(DatesIn(history[n]))
               \/ \E o \in Matching(old_history, CodeOf(n)) : StartOf(n) = StartOf(o)

UniqueIndex(df) == Cardinality(IndexOf(df)) = Len(df.rows)
RowsOf(df) == {df.rows[i] : i \in DOMAIN df.rows}

\* C4: for tables with the same columns and unique dates, the merge holds
\* exactly the union of the two date sets, each date once; a date of
\* incoming carries incoming's whole row, a date only in existing carries
\* existing's row unchanged.
C4_MergeUnionOverride ==
    (pc = "called" /\ df1.columns = df2.columns /\ UniqueIndex(df1) /\ UniqueIndex(df2)) =>
        /\ IsFrame(combined)
        /\ combined.columns = df1.columns
        /\ IndexOf(combined) = IndexOf(df1) \cup IndexOf(df2)
        /\ UniqueIndex(combined)
        /\ \A r \in RowsOf(combined) :
              IF r.date \in IndexOf(df2) THEN r \in RowsOf(df2) ELSE r \in RowsOf(df1)

C4_Witness ==
    /\ pc = "called" /\ df1.columns = df2.columns
    /\ UniqueIndex(df1) /\ UniqueIndex(df2)
    /\ Len(df1.rows) = 2 /\ Len(df2.rows) = 1
    /\ IndexOf(df2) \subseteq IndexOf(df1)
    /\ RowsOf(df2) \cap RowsOf(df1) = {}
    /\ Len(df1.columns) = 2
    /\ Len(combined.rows) = 2

\* C5: merge idempotence (default call, no sorting): merging a table with
\* itself returns that table, and merging the result of a merge with the
\* same incoming table again returns the same result.
C5_MergeIdempotent ==
    ~sort_index =>
        /\ (pc = "called" /\ df1 = df2) => combined = df1
        /\ pc = "recalled" => combined = df1

C5_Witness ==
    /\ ~sort_index /\ pc = "recalled"
    /\ Len(df2.rows) = 2 /\ Len(combined.rows) = 3
    /\ ~UniqueIndex(df2)

SetOf(seq) == {seq[i] : i \in DOMAIN seq}

\* C6: the merge raises the schema-mismatch error exactly when the column
\* sets of the two tables differ (two tables with the same set of columns
\* are merged), and it returns no table when it raises.
C6_RaisesIffColumnSetsDiffer ==
    pc = "called" =>
        /\ (combined = ValueError) <=> (SetOf(df1.columns) # SetOf(df2.columns))
        /\ IsFrame(combined) <=> (combined # ValueError)

PrevDay(d) ==
    IF Day(d) > 1 THEN d - 1
    ELSE IF Month(d) > 1
         THEN Year(d) * 10000 + (Month(d) - 1) * 100 + DaysInMonth(Year(d), Month(d) - 1)
         ELSE (Year(d) - 1) * 10000 + 1231

\* C7: for the store file's range end orig_end and the current date today,
\* new_start is the day two days before orig_end, new_end the day two days
\* before today, and check_up_to_date is true iff new_end = orig_end; the
\* file ending 20240110 with today 20240115 gives 20240108, 20240113, stale.
C7_WindowResolver ==
    pc # "check" =>
        /\ \E f \in DOMAIN history : orig_end = EndOf(f) /\ orig_start = StartOf(f)
        /\ new_start = PrevDay(PrevDay(orig_end))
        /\ new_end = PrevDay(PrevDay(today))
        /\ pc = "done" => (up_to_date /\ new_end = orig_end)
        /\ pc = "update_history" => (~up_to_date /\ new_end # orig_end)
        /\ (orig_end = 20240110 /\ today = 20240115) =>
              (new_start = 20240108 /\ new_end = 20240113 /\ pc # "done")

C7_Witness ==
    /\ pc = "update_history"
    /\ orig_end = 20240101 /\ new_start = 20231230
    /\ today = 20240302 /\ new_end = 20240229

C9_AtMostFourAttempts ==
    attempts <= MaxErrors

\* C10: the date window is station-scoped: the window fetched for a station
\* starts two days before the range end of that station's own history file,
\* and a rewritten history file keeps the range start its station had.
C10_StationScopedWindow ==
    /\ pc = "while" =>
          \A n \in Matching(old_history, Station) : new_start = SubtractDays(EndOf(n), Buffer)
    /\ pc = "done" =>
          \A n \in DOMAIN history : \A o \in Matching(old_history, CodeOf(n)) :
              StartOf(n) = StartOf(o)

\* the value a station file holds for a parameter on a date, as a set
\* (empty when the file has no row of that date or the cell is empty)
ValuesOn(file, param, d) ==
    LET f == read_csv(file)
    IN  IF ~IsFrame(f) \/ ~Has(f.columns, param) THEN {}
        ELSE {f.rows[i].vals[Position(f.columns, param)] :
                i \in {j \in DOMAIN f.rows : f.rows[j].date = d}} \ {MissingValue}

\* the files of the stations of a state that report a value on a date
Reporting(dir, state, param, d) ==
    {n \in DOMAIN dir : StateOf(CodeOf(n)) = state /\ ValuesOn(dir[n], param, d) # {}}

RECURSIVE StationSum(_, _, _, _)
StationSum(dir, names, param, d) ==
    IF names = {} THEN 0
    ELSE LET n == CHOOSE x \in names : TRUE
         IN  (CHOOSE v \in ValuesOn(dir[n], param, d) : TRUE)
               + StationSum(dir, names \ {n}, param, d)

\* the cell of a state in a row of an exported table; NaN stands for a
\* column the table does not have
CellAt(table, i, state) ==
    IF Has(table.columns, state)
    THEN table.rows[i].cells[Position(table.columns, state)]
    ELSE NaN

DatesSeen(dir) == UNION {DatesIn(dir[n]) : n \in EligibleFiles(dir)}

\* C11: every exported table has one row per distinct date seen in the
\* eligible station files; its cell for date d and allow-listed state s is
\* the arithmetic mean of the values of the stations of s that report on d
\* (stations at 10 and 20 give 15), and is empty, not zero, when none does.
C11_StateMeans ==
    \A p \in DOMAIN treated :
        LET table == treated[p] IN
        /\ {table.rows[i].date : i \in DOMAIN table.rows} = DatesSeen(history)
        /\ Len(table.rows) = Cardinality(DatesSeen(history))
        /\ \A i \in DOMAIN table.rows : \A k \in DOMAIN states :
              LET d    == table.rows[i].date
                  from == Reporting(history, states[k], p, d)
                  cell == CellAt(table, i, states[k])
              IN  /\ from = {} => cell = NaN
                  /\ from # {} =>
                        /\ "mean" \in DOMAIN cell
                        /\ cell.mean.num * Cardinality(from)
                             = cell.mean.den * StationSum(history, from, p, d)
                  /\ (/\ from = {FileName("A", 20240110, 20240111),
                                 FileName("B", 20240110, 20240111)}
                      /\ StationSum(history, from, p, d) = 30)
                        => cell = [mean |-> [num |-> 15, den |-> 1]]

C11_Witness ==
    /\ pc = "built"
    /\ "IMERG_PRECTOT" \in DOMAIN treated
    /\ LET table == treated["IMERG_PRECTOT"] IN
       /\ Len(table.rows) = 2
       /\ table.columns = <<"MG">>
       /\ table.rows[1].cells = <<[mean |-> [num |-> 15, den |-> 1]]>>
       /\ table.rows[2].cells = <<NaN>>
    /\ ValuesOn(history[FileName("A", 20240110, 20240111)], "IMERG_PRECTOT", 20240110) = {10}
    /\ ValuesOn(history[FileName("B", 20240110, 20240111)], "IMERG_PRECTOT", 20240110) = {20}
    /\ Matching(history, "D") # {}

====
